---- MODULE Spec2Model ----
(***************************************************************************)
(* Model of the telephony <-> AI-backend bridge of voice_query_agent:      *)
(*   backend/audio_converter.py       AudioConverter (codec, resampler,    *)
(*                                    format bridge)                       *)
(*   backend/virtual_client.py        VirtualWebSocketClient (backend      *)
(*                                    connection of one call)              *)
(*   backend/call_session_manager.py  CallSession, CallSessionManager      *)
(*   backend/media_stream_handler.py  TwilioMediaStreamHandler             *)
(*                                                                         *)
(* Every coroutine is cut at the awaits that really suspend (a network     *)
(* connect, a close handshake); the code between two such awaits is one    *)
(* atomic step of the asyncio event loop.                                  *)
(***************************************************************************)
EXTENDS Integers, Sequences, FiniteSets, TLC

\* ------------------------------------------------------------------ bounds
NumConns         == 2   \* telephony connections served by the handler
MaxStream        == 1   \* stream ids are 1..MaxStream; 0 is a missing streamSid (None)
MaxSessions      == 2   \* CallSession objects constructed in one run
MaxMedia         == 1   \* media events delivered in one run of Spec
CallMedia        == 2   \* media events delivered in one run of SpecCall
CallFrames       == 1   \* frames the backends deliver in one run of SpecCall and SpecScenario
MaxRelay         == 2   \* frames one relay reads, both directions together

Conns      == 1..NumConns
StreamSids == 0..MaxStream
SessionIds == 1..MaxSessions
NoSession  == 0

\* ------------------------------------------------------- byte arithmetic
RECURSIVE BitXor(_, _, _)
\* a ^ b on the low n bits
BitXor(a, b, n) ==
    IF n = 0 THEN 0
    ELSE (((a % 2) + (b % 2)) % 2) + 2 * BitXor(a \div 2, b \div 2, n - 1)

RECURSIVE Pow2(_)
Pow2(n) == IF n = 0 THEN 1 ELSE 2 * Pow2(n - 1)

Abs(x) == IF x < 0 THEN -x ELSE x
Clip(x, lo, hi) == IF x < lo THEN lo ELSE IF x > hi THEN hi ELSE x

\* truncation toward zero of the rational n/d (d > 0): ndarray.astype(int16)
TruncDiv(n, d) == IF n >= 0 THEN n \div d ELSE -((-n) \div d)

\* a 16-bit sample as its two little-endian bytes, and back (numpy int16 buffer)
Int16ToBytes(v) == LET u == v % 65536 IN << u % 256, u \div 256 >>
BytesToInt16(lo, hi) == LET u == lo + 256 * hi IN IF u >= 32768 THEN u - 65536 ELSE u

\* ndarray.tobytes() of an int16 array
PackInt16(samples) ==
    [i \in 1..(2 * Len(samples)) |-> Int16ToBytes(samples[(i + 1) \div 2])[2 - (i % 2)]]

\* np.frombuffer(data, dtype=np.int16); only defined for an even number of bytes
UnpackInt16(data) ==
    [i \in 1..(Len(data) \div 2) |-> BytesToInt16(data[2 * i - 1], data[2 * i])]

\* ------------------------------------------------------------ base64 text
\* A base64 string is the sequence of its characters: 0..63 are the alphabet
\* symbols by value ("A" is 0), B64Pad is "=".  The empty string is << >>.
B64Pad == 64

\* base64.b64encode(bytes).decode('utf-8'): every three bytes become four
\* symbols, the last group is filled with zero bits and padded
B64Encode(bytes) ==
    LET len == Len(bytes)
        at(i) == IF i <= len THEN bytes[i] ELSE 0
    IN  [p \in 1..(4 * ((len + 2) \div 3)) |->
            LET g == (p - 1) \div 4
                k == (p - 1) % 4
                n == at(3 * g + 1) * 65536 + at(3 * g + 2) * 256 + at(3 * g + 3)
            IN  IF k >= 2 /\ 3 * g + k > len THEN B64Pad
                ELSE (n \div Pow2(6 * (3 - k))) % 64]

\* base64.b64decode raises binascii.Error when the characters do not come in
\* groups of four
B64DecodeRaises(s) == Len(s) % 4 # 0

\* base64.b64decode(s), for a string on which it does not raise: every four
\* symbols become three bytes, less the padding of the last group
B64Decode(s) ==
    LET groups == Len(s) \div 4
        v(i) == IF s[i] = B64Pad THEN 0 ELSE s[i]
        drop == IF groups = 0 THEN 0
                ELSE IF s[4 * groups - 1] = B64Pad THEN 2
                ELSE IF s[4 * groups] = B64Pad THEN 1 ELSE 0
    IN  [p \in 1..(3 * groups - drop) |->
            LET g == (p - 1) \div 3
                k == (p - 1) % 3
                n == v(4 * g + 1) * 262144 + v(4 * g + 2) * 4096 + v(4 * g + 3) * 64 + v(4 * g + 4)
            IN  (n \div Pow2(8 * (2 - k))) % 256]

\* a string b64decode rejects: one lone character
B64Bad == << 0 >>

\* ------------------------------------------------------------------ codec
\* the decoder computed in integers wide enough to hold every intermediate value
mulaw_to_pcm16_sample_wide(b) ==
    LET biased   == BitXor(b, 85, 8)
        sign     == (biased \div 128) % 2 = 1
        exponent == (biased % 128) \div 16
        mantissa == biased % 16
        shift    == IF exponent - 1 < 0 THEN 0 ELSE exponent - 1
        linear   == (mantissa * 2 + 33) * Pow2(shift)
        signed   == IF sign THEN -linear ELSE linear
    IN  Clip(signed * 4, -32768, 32767)

\* One companded byte -> one PCM16 sample.  All intermediate arrays are
\* uint8, so the arithmetic wraps modulo 256: exponent - 1 is 255 for
\* exponent 0 and a shift by 255 yields 0; -linear and linear * 4 wrap.
mulaw_to_pcm16_sample(b) ==
    LET biased   == BitXor(b, 85, 8)
        sign     == (biased \div 128) % 2 = 1
        exponent == (biased % 128) \div 16
        mantissa == biased % 16
        shift    == (exponent - 1) % 256
        linear   == IF shift >= 8 THEN 0
                    ELSE ((mantissa * 2 + 33) * Pow2(shift)) % 256
        signed   == IF sign THEN (256 - linear) % 256 ELSE linear
    IN  Clip((signed * 4) % 256, -32768, 32767)

mulaw_to_pcm16(mulaw_data) ==
    IF mulaw_data = << >> THEN << >>
    ELSE PackInt16([i \in 1..Len(mulaw_data) |-> mulaw_to_pcm16_sample(mulaw_data[i])])

\* One PCM16 sample -> one companded byte.
pcm16_to_mulaw_sample(v) ==
    LET sign       == v < 0
        compressed == Clip(Abs(v) \div 256, 0, 127)
        mulaw      == IF sign THEN compressed + 128 ELSE compressed
    IN  BitXor(mulaw, 85, 8)

\* pcm16_to_mulaw encoding the whole samples of a payload and ignoring a
\* trailing odd byte
pcm16_to_mulaw_truncating(pcm_data) ==
    IF pcm_data = << >> THEN << >>
    ELSE LET whole     == SubSeq(pcm_data, 1, 2 * (Len(pcm_data) \div 2))
             pcm_array == UnpackInt16(whole)
         IN  [i \in 1..Len(pcm_array) |-> pcm16_to_mulaw_sample(pcm_array[i])]

pcm16_to_mulaw(pcm_data) ==
    IF pcm_data = << >> THEN << >>
    ELSE IF Len(pcm_data) % 2 # 0
         THEN [i \in 1..(Len(pcm_data) \div 2) |-> 85]      \* except: silence fallback
         ELSE LET pcm_array == UnpackInt16(pcm_data)
              IN  [i \in 1..Len(pcm_array) |-> pcm16_to_mulaw_sample(pcm_array[i])]

\* -------------------------------------------------------------- resampler
\* np.interp at the i-th of new_length points of np.linspace(0, n - 1, new_length),
\* in exact arithmetic, then truncated by astype(np.int16)
InterpAt(audio_array, i, new_length) ==
    LET n == Len(audio_array)
    IN  IF new_length = 1 \/ n = 1 THEN audio_array[1]
        ELSE LET num == (i - 1) * (n - 1)
                 den == new_length - 1
                 j   == num \div den
                 r   == num % den
             IN  IF r = 0 THEN audio_array[j + 1]
                 ELSE TruncDiv(audio_array[j + 1] * den
                               + (audio_array[j + 2] - audio_array[j + 1]) * r, den)

\* resample_audio without its two tests for empty input: new_length is at
\* least 1, so one sample comes out of none
resample_audio_pad(audio_data, from_rate, to_rate) ==
    IF from_rate = to_rate THEN audio_data
    ELSE IF Len(audio_data) % 2 # 0 THEN audio_data
    ELSE LET audio_array == UnpackInt16(audio_data)
             original_length == Len(audio_array)
             scaled == (original_length * to_rate) \div from_rate
             new_length == IF scaled < 1 THEN 1 ELSE scaled
         IN  PackInt16([i \in 1..new_length |->
                 IF original_length = 0 THEN 0
                 ELSE Clip(InterpAt(audio_array, i, new_length), -32768, 32767)])

\* resample_audio with sample_width = 2, the only width the bridge uses
resample_audio(audio_data, from_rate, to_rate) ==
    IF audio_data = << >> \/ from_rate = to_rate THEN audio_data
    ELSE IF Len(audio_data) % 2 # 0 THEN audio_data            \* except: input returned
    ELSE LET audio_array == UnpackInt16(audio_data)
             original_length == Len(audio_array)
             scaled == (original_length * to_rate) \div from_rate
             new_length == IF scaled < 1 THEN 1 ELSE scaled
         IN  PackInt16([i \in 1..new_length |->
                 Clip(InterpAt(audio_array, i, new_length), -32768, 32767)])

\* ---------------------------------------------------------- format bridge
\* the inbound bridge without its resampling stage
twilio_to_gemini_format_8k(base64_mulaw) ==
    IF base64_mulaw = << >> THEN << >>
    ELSE IF B64DecodeRaises(base64_mulaw) THEN << >>
    ELSE B64Encode(mulaw_to_pcm16(B64Decode(base64_mulaw)))

twilio_to_gemini_format(base64_mulaw) ==
    IF base64_mulaw = << >> THEN << >>
    ELSE IF B64DecodeRaises(base64_mulaw) THEN << >>
    ELSE B64Encode(resample_audio(mulaw_to_pcm16(B64Decode(base64_mulaw)), 8000, 16000))

gemini_to_twilio_format(base64_pcm) ==
    IF base64_pcm = << >> THEN << >>
    ELSE IF B64DecodeRaises(base64_pcm) THEN << >>
    ELSE B64Encode(pcm16_to_mulaw(resample_audio(B64Decode(base64_pcm), 24000, 8000)))

create_gemini_audio_message(base64_pcm) ==
    [type |-> "realtime_input", data |-> base64_pcm]

\* ------------------------------------------------------------------ state
VARIABLES
    active_sessions,  \* CallSessionManager.active_sessions: stream id -> session (NoSession: no key)
    active_streams,   \* TwilioMediaStreamHandler.active_streams: stream id -> session of the entry
    session,          \* the CallSession objects, each with its VirtualWebSocketClient
    nsessions,        \* CallSession objects constructed so far
    pc,               \* per telephony connection: where handle_media_stream stands
    loc,              \* per telephony connection: locals of the suspended handler
    twilio_out,       \* per telephony connection: frames written to the transport
    nmedia,           \* media events delivered so far; the n-th one has arrival number n
    nframes,          \* frames delivered by the backends so far
    early,            \* history, per session: arrival number of the last media event for
                      \* its stream id that arrived while its connect was pending
    key_order,        \* the keys of active_sessions in dict (insertion) order
    endall,           \* the task running CallSessionManager.cleanup_all_sessions
    relay,            \* main.py: the two connections and the two proxy_task tasks of one relay
    codec,            \* audio_converter.py: one call of a conversion, its arguments and result
    server            \* main.py: the relay process, its credentials and its listening socket

vars == << active_sessions, active_streams, session, nsessions, pc, loc,
           twilio_out, nmedia, nframes, early, key_order, endall, relay, codec, server >>

\* payloads of telephony media events: a missing or empty payload, a string
\* that is not base64, and two one-sample payloads that decode differently
MediaPayloads == { << >>, B64Bad, B64Encode(<< 21 >>), B64Encode(<< 5 >>) }

\* inline audio sent by the backend: PCM16 at 24 kHz
PcmA == B64Encode(PackInt16(<< 8192 >>))
PcmB == B64Encode(PackInt16(<< -16384, 0, 0 >>))

\* how websockets.connect and the first send settle
ConnectOutcomes == {"ok", "refused", "dropped"}

SetupMessage == [type |-> "setup", data |-> << >>]

\* parts of a model turn: inline audio, inline data without its "data" key, text
AudioPart(data) == [tag |-> "inlineData", data |-> data, text |-> ""]
NoDataPart == [tag |-> "inlineDataNoData", data |-> << >>, text |-> ""]
TextPart == [tag |-> "text", data |-> << >>, text |-> "part text"]

\* A frame a backend delivers is a text that json.loads rejects
\* ("unparseable") or a JSON object ("json") with the keys the listener looks
\* at: setupComplete, and under serverContent the two transcriptions (NoField:
\* key absent; "": no text) and the parts of modelTurn.
NoField == "absent"
Frame(setupComplete, input, output, parts) ==
    [ kind |-> "json", setupComplete |-> setupComplete,
      inputTranscription |-> input, outputTranscription |-> output, parts |-> parts ]
UnparseableFrame == [Frame(FALSE, NoField, NoField, << >>) EXCEPT !.kind = "unparseable"]
SetupCompleteFrame == Frame(TRUE, NoField, NoField, << >>)

BackendFrames ==
    { UnparseableFrame,
      SetupCompleteFrame,
      Frame(TRUE, NoField, "answer", << AudioPart(PcmA) >>),
      Frame(FALSE, "question", NoField, << >>),
      Frame(FALSE, NoField, "answer", << >>),
      Frame(FALSE, "question", "answer", << >>),
      Frame(FALSE, NoField, "", << >>),
      Frame(FALSE, NoField, NoField, << AudioPart(PcmA) >>),
      Frame(FALSE, NoField, NoField, << AudioPart(PcmB), AudioPart(PcmA) >>),
      Frame(FALSE, NoField, NoField, << AudioPart(<< >>), TextPart >>),
      Frame(FALSE, NoField, NoField, << NoDataPart, AudioPart(PcmA) >>) }

\* CallSession.__init__ and VirtualWebSocketClient.__init__
NewCallSession(call_sid, stream_sid, twilio_websocket) ==
    [ call_sid         |-> call_sid,
      stream_sid       |-> stream_sid,
      twilio_websocket |-> twilio_websocket,
      virtual_client   |-> FALSE,
      connected        |-> FALSE,
      vc_websocket     |-> "None",      \* "None", or the connection in state OPEN/CLOSING/CLOSED
      vc_connected     |-> FALSE,
      listener         |-> "none",      \* the listen_for_responses task: none/running/done
      sent             |-> << >>,       \* frames written on the backend connection
      end_calls        |-> 0,           \* history: end_session calls that found this session
      on_error_calls   |-> 0,           \* history: invocations of the error listener
      audio_calls      |-> << >>,       \* history: arguments of on_audio_response calls
      text_calls       |-> << >>,       \* history: arguments of on_text_response calls
      heard            |-> << >> ]      \* history: frames the listener task has read

NullSession == NewCallSession(0, 0, 0)

\* the locals of a handler that is not suspended
NoLocals == [stream_sid |-> 0, session |-> NoSession]

\* cleanup_all_sessions not called yet
EndAllIdle ==
    [ pc         |-> "idle",       \* idle / iter / close / done / raised
      keys       |-> << >>,        \* the rest of list(self.active_sessions.keys())
      stream_sid |-> 0,            \* locals of the end_session call that is suspended
      session    |-> NoSession,
      known      |-> {},           \* history: the Sessions in the registry at the call
      base       |-> 0,            \* history: CallSession objects constructed before the call
      overlap    |-> FALSE ]       \* history: a create_session was pending at the call

\* the two directions of a relay: client to server, server to client
Directions == {"c2s", "s2c"}
Source(d) == IF d = "c2s" THEN "client" ELSE "server"
Destination(d) == IF d = "c2s" THEN "server" ELSE "client"

\* create_proxy after websockets.connect and the two create_task calls,
\* suspended in asyncio.gather
RelayStarted ==
    [ side    |-> [x \in {"client", "server"} |-> "OPEN"],      \* OPEN / CLOSED
      clean   |-> [x \in {"client", "server"} |-> TRUE],        \* closed with close code OK
      task    |-> [d \in Directions |-> "running"],             \* running / done / failed
      gather  |-> "waiting",                                    \* waiting / returned / raised
      handler |-> "running",                                    \* handle_client: running / over
      read    |-> [d \in Directions |-> << >>],                 \* history: frames read
      written |-> [d \in Directions |-> << >>] ]                \* frames sent to the destination

\* the listening socket of main() before any client: no connection, no task
RelayListening ==
    [ side    |-> [x \in {"client", "server"} |-> "NONE"],
      clean   |-> [x \in {"client", "server"} |-> TRUE],
      task    |-> [d \in Directions |-> "none"],
      gather  |-> "none",           \* none / connecting, then as in RelayStarted
      handler |-> "none",
      read    |-> [d \in Directions |-> << >>],
      written |-> [d \in Directions |-> << >>] ]

\* the module-level configuration of main.py, lines 18-19: a service account
\* key file that exists, a bearer token, or neither
Credentials == {"service_account", "bearer", "none"}

\* the relay process: main() before websockets.serve ("starting") or inside
\* it ("serving"), and the client connections its server has accepted
ServerStarting(credentials) ==
    [ credentials |-> credentials, stage |-> "starting", accepted |-> 0 ]

\* a process with a bearer token whose server has accepted the one client
ServerProxying ==
    [ credentials |-> "bearer", stage |-> "serving", accepted |-> 1 ]

\* no conversion called
CodecIdle ==
    [ kind      |-> "none",      \* what data holds: samples / bytes / text
      raw       |-> << >>,       \* history: the samples or bytes data was built from
      data      |-> << >>,       \* the argument: a bytes object or a base64 string
      from_rate |-> 0,
      to_rate   |-> 0,
      op        |-> "none",      \* the conversion applied
      mid       |-> << >>,       \* round trip: the companded bytes in between
      out       |-> << >> ]      \* the value returned

InitState ==
    /\ key_order = << >>
    /\ endall = EndAllIdle
    /\ active_sessions = [k \in StreamSids |-> NoSession]
    /\ active_streams = [k \in StreamSids |-> NoSession]
    /\ session = [s \in SessionIds |-> NullSession]
    /\ nsessions = 0
    /\ pc = [c \in Conns |-> "recv"]
    /\ loc = [c \in Conns |-> NoLocals]
    /\ twilio_out = [c \in Conns |-> << >>]
    /\ nmedia = 0
    /\ nframes = 0
    /\ early = [s \in SessionIds |-> 0]

Init ==
    /\ InitState
    /\ relay = RelayStarted
    /\ server = ServerProxying
    /\ codec = CodecIdle

\* --------------------------------------------------------- CallSession
\* handle_error that logs and leaves the flag alone
handle_error_logonly(sr) ==
    [sr EXCEPT !.on_error_calls = @ + 1]

\* CallSession.handle_error, the on_error callback of the virtual client
handle_error(sr) ==
    [sr EXCEPT !.connected = FALSE, !.on_error_calls = @ + 1]

\* send_message writing the new frame ahead of the frames already written
send_message_front(sr, message, ev, src) ==
    IF sr.vc_websocket # "None" /\ sr.vc_connected
    THEN IF sr.vc_websocket = "OPEN"
         THEN [sr EXCEPT !.sent = << [msg |-> message, ev |-> ev, src |-> src] >> \o @]
         ELSE handle_error(sr)
    ELSE sr

\* VirtualWebSocketClient.send_message; ev and src are the arrival number and the
\* payload of the media event the frame comes from
send_message(sr, message, ev, src) ==
    IF sr.vc_websocket # "None" /\ sr.vc_connected
    THEN IF sr.vc_websocket = "OPEN"
         THEN [sr EXCEPT !.sent = Append(@, [msg |-> message, ev |-> ev, src |-> src])]
         ELSE handle_error(sr)                  \* websocket.send raises ConnectionClosed
    ELSE sr

send_setup_message(sr) == send_message(sr, SetupMessage, 0, << >>)

\* connect without the setup message
connect_no_setup(sr, outcome) ==
    IF outcome = "refused"
    THEN handle_error([sr EXCEPT !.vc_connected = FALSE])
    ELSE [sr EXCEPT !.vc_websocket = IF outcome = "ok" THEN "OPEN" ELSE "CLOSED",
                    !.vc_connected = TRUE,
                    !.listener = "running"]

\* VirtualWebSocketClient.connect after websockets.connect has settled:
\*   "refused"  websockets.connect raised
\*   "ok"       the connection is open
\*   "dropped"  the connection opened and the peer closed it before the setup send
connect(sr, outcome) ==
    IF outcome = "refused"
    THEN handle_error([sr EXCEPT !.vc_connected = FALSE])
    ELSE LET opened == [sr EXCEPT !.vc_websocket = IF outcome = "ok" THEN "OPEN" ELSE "CLOSED",
                                  !.vc_connected = TRUE]
         IN  [send_setup_message(opened) EXCEPT !.listener = "running"]

\* CallSession.start_gemini_connection from the return of connect()
start_gemini_connection(sr, outcome) ==
    [connect(sr, outcome) EXCEPT !.connected = TRUE]

\* send_audio_from_twilio without the test of the bridge result
send_audio_from_twilio_unchecked(sr, base64_mulaw, ev) ==
    LET base64_pcm == twilio_to_gemini_format(base64_mulaw)
    IN  send_message(sr, create_gemini_audio_message(base64_pcm), ev, base64_mulaw)

\* VirtualWebSocketClient.send_audio_from_twilio
send_audio_from_twilio(sr, base64_mulaw, ev) ==
    LET base64_pcm == twilio_to_gemini_format(base64_mulaw)
    IN  IF base64_pcm # << >>
        THEN send_message(sr, create_gemini_audio_message(base64_pcm), ev, base64_mulaw)
        ELSE sr

\* CallSession.send_audio_to_gemini
send_audio_to_gemini(sr, base64_mulaw, ev) ==
    IF sr.virtual_client /\ sr.connected
    THEN send_audio_from_twilio(sr, base64_mulaw, ev)
    ELSE sr

\* CallSession.send_audio_to_twilio: the frame the coroutine writes when it runs
send_audio_to_twilio(sr, base64_mulaw) ==
    [event |-> "media", streamSid |-> sr.stream_sid, payload |-> base64_mulaw]

\* ------------------------------------------------- VirtualWebSocketClient
RECURSIVE handle_parts(_, _)
\* the loop over the parts of a model turn in handle_gemini_response.  The
\* audio listener is the coroutine function send_audio_to_twilio: the call
\* builds a coroutine object that nothing awaits, so its body never runs.
handle_parts(sr, parts) ==
    IF parts = << >> THEN sr
    ELSE LET part == Head(parts)
         IN  IF part.tag = "inlineData"
             THEN LET base64_mulaw == gemini_to_twilio_format(part.data)
                  IN  IF base64_mulaw # << >>
                      THEN handle_parts([sr EXCEPT !.audio_calls = Append(@, base64_mulaw)],
                                        Tail(parts))
                      ELSE handle_parts(sr, Tail(parts))
             ELSE IF part.tag = "inlineDataNoData"
             THEN handle_error(sr)              \* KeyError: except branch, the loop is left
             ELSE IF part.tag = "text"
             THEN handle_parts([sr EXCEPT !.text_calls = Append(@, part.text)], Tail(parts))
             ELSE handle_parts(sr, Tail(parts))

\* the transcription block giving both transcriptions to the text listener
handle_transcriptions_both(sr, frame) ==
    LET texts == SelectSeq(<< frame.inputTranscription, frame.outputTranscription >>,
                           LAMBDA x : x \notin { NoField, "" })
    IN  [sr EXCEPT !.text_calls = @ \o texts]

\* the transcription block of handle_gemini_response: the input transcription
\* is logged, the output transcription is logged and given to the text listener
handle_transcriptions(sr, frame) ==
    IF frame.outputTranscription \notin { NoField, "" }
    THEN [sr EXCEPT !.text_calls = Append(@, frame.outputTranscription)]
    ELSE sr

\* handle_gemini_response without the return after the setupComplete log line
handle_gemini_response_noreturn(sr, frame) ==
    handle_parts(handle_transcriptions(sr, frame), frame.parts)

\* VirtualWebSocketClient.handle_gemini_response on a parsed frame
handle_gemini_response(sr, frame) ==
    IF frame.setupComplete THEN sr
    ELSE handle_parts(handle_transcriptions(sr, frame), frame.parts)

\* one turn of the loop of listen_for_responses
listen_for_responses(sr, frame) ==
    IF frame.kind = "unparseable"
    THEN [handle_error(sr) EXCEPT !.listener = "done",   \* json.loads raises: the loop is left
                                  !.heard = Append(@, frame)]
    ELSE handle_gemini_response([sr EXCEPT !.heard = Append(@, frame)], frame)

\* VirtualWebSocketClient.disconnect, from the return of websocket.close()
disconnect(sr) ==
    IF sr.vc_websocket # "None" /\ sr.vc_connected
    THEN [sr EXCEPT !.vc_websocket = "CLOSED", !.vc_connected = FALSE]
    ELSE sr

\* disconnect awaits the close handshake of a connection that is not closed
cleanup_suspends(sr) ==
    sr.virtual_client /\ sr.vc_connected /\ sr.vc_websocket \in {"OPEN", "CLOSING"}

\* cleanup that clears the flag and leaves the virtual client alone
cleanup_flag_only(sr) == [sr EXCEPT !.connected = FALSE]

\* CallSession.cleanup
cleanup(sr) ==
    [(IF sr.virtual_client THEN disconnect(sr) ELSE sr) EXCEPT !.connected = FALSE]

\* ---------------------------------------------------- CallSessionManager
\* create_session without the store
create_session_nostore(registry, stream_sid, s) == registry

\* the store of create_session
create_session(registry, stream_sid, s) == [registry EXCEPT ![stream_sid] = s]

\* dict order: a store on a new key appends it, a store on a present key keeps
\* its place, del removes it
keys_after_store(order, registry, stream_sid) ==
    IF registry[stream_sid] = NoSession THEN Append(order, stream_sid) ELSE order
keys_after_del(order, stream_sid) == SelectSeq(order, LAMBDA k : k # stream_sid)

\* a lookup that falls back on some active session when the key is missing
get_session_fallback(registry, stream_sid) ==
    IF registry[stream_sid] # NoSession THEN registry[stream_sid]
    ELSE IF \E k \in StreamSids : registry[k] # NoSession
         THEN registry[CHOOSE k \in StreamSids : registry[k] # NoSession]
         ELSE NoSession

\* CallSessionManager.get_session
get_session(registry, stream_sid) == registry[stream_sid]

\* end_session ending some active session when the key is missing
end_session_get_fallback(registry, stream_sid) ==
    IF registry[stream_sid] # NoSession THEN registry[stream_sid]
    ELSE IF \E k \in StreamSids : registry[k] # NoSession
         THEN registry[CHOOSE k \in StreamSids : registry[k] # NoSession]
         ELSE NoSession

\* the lookup of end_session
end_session_get(registry, stream_sid) == registry[stream_sid]

\* the del of end_session; it raises KeyError when the key is gone
end_session_raises(registry, stream_sid) == registry[stream_sid] = NoSession
\* end_session without the del
end_session_keep(registry, stream_sid) == registry

end_session(registry, stream_sid) == [registry EXCEPT ![stream_sid] = NoSession]

\* -------------------------------------------- TwilioMediaStreamHandler
\* session s is constructed, and create_session has not returned it yet
Created(s) == s <= nsessions
InCreation(s) == \E c \in Conns : pc[c] = "connect" /\ loc[c].session = s
Returned(s) == Created(s) /\ ~InCreation(s)

\* a "connected" event, or an event with an unknown discriminator
RecvIgnored(c) ==
    /\ pc[c] = "recv"
    /\ UNCHANGED vars

\* a frame json.loads rejects: the exception leaves the receive loop and
\* handle_media_stream returns ("failed"), which closes the connection
RecvUnparseable(c) ==
    /\ pc[c] = "recv"
    /\ pc' = [pc EXCEPT ![c] = "failed"]
    /\ UNCHANGED << active_sessions, active_streams, session, nsessions, loc,
                    twilio_out, nmedia, nframes, early, key_order, endall, relay, codec, server >>

\* a close of the telephony connection that ends the Sessions started on it
TransportClose_cleanup(c) ==
    /\ pc[c] = "recv"
    /\ pc' = [pc EXCEPT ![c] = "closed"]
    /\ LET ended(k) == /\ active_sessions[k] # NoSession
                        /\ session[active_sessions[k]].twilio_websocket = c
       IN  /\ session' = [s \in SessionIds |->
                  IF \E k \in StreamSids : ended(k) /\ active_sessions[k] = s
                  THEN cleanup(session[s]) ELSE session[s]]
           /\ active_sessions' = [k \in StreamSids |->
                  IF ended(k) THEN NoSession ELSE active_sessions[k]]
           /\ key_order' = SelectSeq(key_order, LAMBDA k : ~ended(k))
           /\ active_streams' = [k \in StreamSids |->
                  IF ended(k) THEN NoSession ELSE active_streams[k]]
    /\ UNCHANGED << nsessions, loc, twilio_out, nmedia, nframes, early, endall, relay, codec, server >>

\* the telephony peer closes the connection: ConnectionClosed ends the loop
TransportClose(c) ==
    /\ pc[c] = "recv"
    /\ pc' = [pc EXCEPT ![c] = "closed"]
    /\ UNCHANGED << active_sessions, active_streams, session, nsessions, loc,
                    twilio_out, nmedia, nframes, early, key_order, endall, relay, codec, server >>

\* handle_stream_start up to the await of websockets.connect
StartBegin(c, stream_sid) ==
    /\ pc[c] = "recv"
    /\ nsessions < MaxSessions
    /\ LET s == nsessions + 1
       IN  /\ session' = [session EXCEPT ![s] =
                  [NewCallSession(c, stream_sid, c) EXCEPT !.virtual_client = TRUE]]
           /\ loc' = [loc EXCEPT ![c] = [stream_sid |-> stream_sid, session |-> s]]
    /\ nsessions' = nsessions + 1
    /\ pc' = [pc EXCEPT ![c] = "connect"]
    /\ UNCHANGED << active_sessions, active_streams, twilio_out, nmedia, nframes, early,
                    key_order, endall, relay, codec, server >>

\* handle_stream_start letting a failed connect leave handle_media_stream
StartFinish_raises(c, outcome) ==
    /\ pc[c] = "connect"
    /\ LET s == loc[c].session
           stream_sid == loc[c].stream_sid
       IN  /\ session' = [session EXCEPT ![s] =
                  start_gemini_connection(@, outcome)]
           /\ active_sessions' = create_session(active_sessions, stream_sid, s)
           /\ key_order' = keys_after_store(key_order, active_sessions, stream_sid)
           /\ active_streams' = [active_streams EXCEPT ![stream_sid] = s]
    /\ pc' = [pc EXCEPT ![c] = IF outcome = "ok" THEN "recv" ELSE "failed"]
    /\ loc' = [loc EXCEPT ![c] = NoLocals]
    /\ UNCHANGED << nsessions, twilio_out, nmedia, nframes, early, endall, relay, codec, server >>

\* handle_stream_start from the return of websockets.connect to its end
StartFinish(c, outcome) ==
    /\ pc[c] = "connect"
    /\ LET s == loc[c].session
           stream_sid == loc[c].stream_sid
       IN  /\ session' = [session EXCEPT ![s] =
                  start_gemini_connection(@, outcome)]
           /\ active_sessions' = create_session(active_sessions, stream_sid, s)
           /\ key_order' = keys_after_store(key_order, active_sessions, stream_sid)
           /\ active_streams' = [active_streams EXCEPT ![stream_sid] = s]
    /\ pc' = [pc EXCEPT ![c] = "recv"]
    /\ loc' = [loc EXCEPT ![c] = NoLocals]
    /\ UNCHANGED << nsessions, twilio_out, nmedia, nframes, early, endall, relay, codec, server >>

\* handle_media_data that holds on to the Session it once looked up: it writes
\* the audio to a Session of the stream id although the registry has dropped it
HandleMediaData_stale(c, stream_sid, payload) ==
    /\ pc[c] = "recv"
    /\ nmedia' = nmedia + 1
    /\ LET s == get_session(active_sessions, stream_sid)
           frame == [msg |-> create_gemini_audio_message(twilio_to_gemini_format(payload)),
                     ev |-> nmedia + 1, src |-> payload]
       IN  session' = [t \in SessionIds |->
               IF /\ Returned(t) /\ session[t].stream_sid = stream_sid
                  /\ t # s /\ payload # << >>
               THEN [session[t] EXCEPT !.sent = Append(@, frame)]
               ELSE IF t = s /\ payload # << >> /\ session[t].connected
               THEN send_audio_to_gemini(session[t], payload, nmedia + 1)
               ELSE session[t]]
    /\ UNCHANGED << active_sessions, active_streams, nsessions, pc, loc,
                    twilio_out, nframes, key_order, endall, relay, codec, server >>
    /\ early' = [s \in SessionIds |->
           IF InCreation(s) /\ session[s].stream_sid = stream_sid THEN nmedia + 1 ELSE early[s]]

\* handle_media_data that also writes the audio to a session of the stream id
\* whose connect is still pending
HandleMediaData_early(c, stream_sid, payload) ==
    /\ pc[c] = "recv"
    /\ nmedia' = nmedia + 1
    /\ LET s == get_session(active_sessions, stream_sid)
           frame == [msg |-> create_gemini_audio_message(twilio_to_gemini_format(payload)),
                     ev |-> nmedia + 1, src |-> payload]
       IN  session' = [t \in SessionIds |->
               IF InCreation(t) /\ session[t].stream_sid = stream_sid /\ payload # << >>
               THEN [session[t] EXCEPT !.sent = Append(@, frame)]
               ELSE IF t = s /\ payload # << >> /\ session[t].connected
               THEN send_audio_to_gemini(session[t], payload, nmedia + 1)
               ELSE session[t]]
    /\ UNCHANGED << active_sessions, active_streams, nsessions, pc, loc,
                    twilio_out, nframes, key_order, endall, relay, codec, server >>
    /\ early' = [s \in SessionIds |->
           IF InCreation(s) /\ session[s].stream_sid = stream_sid THEN nmedia + 1 ELSE early[s]]

\* handle_media_data
HandleMediaData(c, stream_sid, payload) ==
    /\ pc[c] = "recv"
    /\ nmedia' = nmedia + 1
    /\ LET s == get_session(active_sessions, stream_sid)
       IN  IF payload # << >> /\ s # NoSession /\ session[s].connected
           THEN session' = [session EXCEPT ![s] =
                    send_audio_to_gemini(@, payload, nmedia + 1)]
           ELSE UNCHANGED session
    /\ UNCHANGED << active_sessions, active_streams, nsessions, pc, loc,
                    twilio_out, nframes, key_order, endall, relay, codec, server >>
    /\ early' = [s \in SessionIds |->
           IF InCreation(s) /\ session[s].stream_sid = stream_sid THEN nmedia + 1 ELSE early[s]]

\* handle_stream_stop up to the await of websocket.close(), or to its end
\* when end_session meets no await
StopBegin(c, stream_sid) ==
    /\ pc[c] = "recv"
    /\ LET s == end_session_get(active_sessions, stream_sid)
       IN  IF s = NoSession
           THEN /\ active_streams' = [active_streams EXCEPT ![stream_sid] = NoSession]
                /\ UNCHANGED << active_sessions, key_order, session, pc, loc, codec, server >>
           ELSE IF cleanup_suspends(session[s])
           THEN /\ session' = [session EXCEPT ![s].vc_websocket = "CLOSING",
                                              ![s].end_calls = @ + 1]
                /\ pc' = [pc EXCEPT ![c] = "close"]
                /\ loc' = [loc EXCEPT ![c] = [stream_sid |-> stream_sid, session |-> s]]
                /\ UNCHANGED << active_sessions, key_order, active_streams, codec, server >>
           ELSE /\ session' = [session EXCEPT ![s] = [cleanup(@) EXCEPT !.end_calls = @ + 1]]
                /\ active_sessions' = end_session(active_sessions, stream_sid)
                /\ key_order' = keys_after_del(key_order, stream_sid)
                /\ active_streams' = [active_streams EXCEPT ![stream_sid] = NoSession]
                /\ UNCHANGED << pc, loc, codec, server >>
    /\ UNCHANGED << nsessions, twilio_out, nmedia, nframes, early, endall, relay, codec, server >>

\* handle_stream_stop that leaves its own active_streams entry in place
StopFinish_keepstream(c) ==
    /\ pc[c] = "close"
    /\ LET s == loc[c].session
           stream_sid == loc[c].stream_sid
       IN  /\ session' = [session EXCEPT ![s] = cleanup(@)]
           /\ IF end_session_raises(active_sessions, stream_sid)
              THEN UNCHANGED << active_sessions, key_order >>
              ELSE /\ active_sessions' = end_session(active_sessions, stream_sid)
                   /\ key_order' = keys_after_del(key_order, stream_sid)
    /\ pc' = [pc EXCEPT ![c] = "recv"]
    /\ loc' = [loc EXCEPT ![c] = NoLocals]
    /\ UNCHANGED << active_streams, nsessions, twilio_out, nmedia, nframes, early,
                    endall, relay, codec, server >>

\* handle_stream_stop from the return of websocket.close() to its end
StopFinish(c) ==
    /\ pc[c] = "close"
    /\ LET s == loc[c].session
           stream_sid == loc[c].stream_sid
       IN  /\ session' = [session EXCEPT ![s] = cleanup(@)]
           /\ IF end_session_raises(active_sessions, stream_sid)
              THEN UNCHANGED << active_sessions, key_order, active_streams, codec, server >>   \* KeyError, logged
              ELSE /\ active_sessions' = end_session(active_sessions, stream_sid)
                   /\ key_order' = keys_after_del(key_order, stream_sid)
                   /\ active_streams' = [active_streams EXCEPT ![stream_sid] = NoSession]
    /\ pc' = [pc EXCEPT ![c] = "recv"]
    /\ loc' = [loc EXCEPT ![c] = NoLocals]
    /\ UNCHANGED << nsessions, twilio_out, nmedia, nframes, early, endall, relay, codec, server >>

\* ------------------------------------------------------------ the backend
\* a listener task that still receives frames after the connection is closed
BackendFrame_closed(s, frame) ==
    /\ s <= nsessions
    /\ session[s].listener = "running"
    /\ session[s].vc_websocket \in {"OPEN", "CLOSING", "CLOSED"}
    /\ session' = [session EXCEPT ![s] = listen_for_responses(@, frame)]
    /\ nframes' = nframes + 1
    /\ UNCHANGED << active_sessions, active_streams, nsessions, pc, loc,
                    twilio_out, nmedia, early, key_order, endall, relay, codec, server >>

\* the listener task of session s receives a frame
BackendFrame(s, frame) ==
    /\ s <= nsessions
    /\ session[s].listener = "running"
    /\ session[s].vc_websocket \in {"OPEN", "CLOSING"}
    /\ session' = [session EXCEPT ![s] = listen_for_responses(@, frame)]
    /\ nframes' = nframes + 1
    /\ UNCHANGED << active_sessions, active_streams, nsessions, pc, loc,
                    twilio_out, nmedia, early, key_order, endall, relay, codec, server >>

\* the backend closes the connection
BackendClose(s) ==
    /\ s <= nsessions
    /\ session[s].vc_websocket = "OPEN"
    /\ session' = [session EXCEPT ![s].vc_websocket = "CLOSED"]
    /\ UNCHANGED << active_sessions, active_streams, nsessions, pc, loc,
                    twilio_out, nmedia, nframes, early, key_order, endall, relay, codec, server >>

\* the listener task meets the closed connection: the iteration ends normally
\* (close code OK) or raises ConnectionClosed (any other close)
ListenerExit(s, raised) ==
    /\ s <= nsessions
    /\ session[s].listener = "running"
    /\ session[s].vc_websocket = "CLOSED"
    /\ session' = [session EXCEPT ![s].listener = "done",
                                  ![s].vc_connected = IF raised THEN FALSE ELSE @]
    /\ UNCHANGED << active_sessions, active_streams, nsessions, pc, loc,
                    twilio_out, nmedia, nframes, early, key_order, endall, relay, codec, server >>

\* The handler serving the telephony connections in C, with at most max_media
\* media events in one run, and backends that open and close connections.
Serve(C, max_media) ==
    \/ \E c \in C : RecvIgnored(c)
    \/ \E c \in C : RecvUnparseable(c)
    \/ \E c \in C : TransportClose(c)
    \/ \E c \in C, k \in StreamSids : StartBegin(c, k)
    \/ \E c \in C, o \in ConnectOutcomes : StartFinish(c, o)
    \/ \E c \in C, k \in StreamSids, p \in MediaPayloads :
           nmedia < max_media /\ HandleMediaData(c, k, p)
    \/ \E c \in C, k \in StreamSids : StopBegin(c, k)
    \/ \E c \in C : StopFinish(c)
    \/ \E s \in SessionIds : BackendClose(s)
    \/ \E s \in SessionIds, r \in BOOLEAN : ListenerExit(s, r)

\* the backends deliver at most max_frames frames in one run
Deliver(max_frames) ==
    \E s \in SessionIds, f \in BackendFrames :
        nframes < max_frames /\ BackendFrame(s, f)

\* Several telephony connections at once; the backends deliver no frame
Next == Serve(Conns, MaxMedia)
Spec == Init /\ [][Next]_vars

\* One telephony connection, more media events, backends that deliver frames
NextCall == Serve({1}, CallMedia) \/ Deliver(CallFrames)
SpecCall == Init /\ [][NextCall]_vars

\* The call of simulate_twilio_media_stream and test_call_flow: one
\* connection delivers start, media, stop for one stream id
ScenarioStream == 1
NextScenario ==
    \/ nsessions = 0 /\ StartBegin(1, ScenarioStream)
    \/ \E o \in ConnectOutcomes : StartFinish(1, o)
    \/ \E p \in MediaPayloads :
           /\ nsessions = 1 /\ nmedia = 0 /\ session[1].end_calls = 0
           /\ HandleMediaData(1, ScenarioStream, p)
    \/ nmedia = 1 /\ session[1].end_calls = 0 /\ StopBegin(1, ScenarioStream)
    \/ StopFinish(1)
    \/ Deliver(CallFrames)
    \/ \E s \in SessionIds : BackendClose(s)
    \/ \E s \in SessionIds, r \in BOOLEAN : ListenerExit(s, r)
SpecScenario == Init /\ [][NextScenario]_vars

\* ------------------------------------------------- cleanup_all_sessions
\* the call of cleanup_all_sessions: the keys are listed
EndAllBegin ==
    /\ endall.pc = "idle"
    /\ endall' = [endall EXCEPT
           !.pc = "iter",
           !.keys = key_order,
           !.known = {active_sessions[k] : k \in StreamSids} \ {NoSession},
           !.base = nsessions,
           !.overlap = \E c \in Conns : pc[c] = "connect"]
    /\ UNCHANGED << active_sessions, active_streams, session, nsessions, pc, loc,
                    twilio_out, nmedia, nframes, early, key_order, relay, codec, server >>

\* the loop of cleanup_all_sessions from the head of an iteration to the next
\* await of websocket.close(), to the next iteration, or to the return
EndAllNext ==
    /\ endall.pc = "iter"
    /\ IF endall.keys = << >>
       THEN /\ endall' = [endall EXCEPT !.pc = "done"]
            /\ UNCHANGED << active_sessions, key_order, session, codec, server >>
       ELSE LET stream_sid == Head(endall.keys)
                s == end_session_get(active_sessions, stream_sid)
            IN  IF s = NoSession
                THEN /\ endall' = [endall EXCEPT !.keys = Tail(@)]
                     /\ UNCHANGED << active_sessions, key_order, session, codec, server >>
                ELSE IF cleanup_suspends(session[s])
                THEN /\ session' = [session EXCEPT ![s].vc_websocket = "CLOSING",
                                                   ![s].end_calls = @ + 1]
                     /\ endall' = [endall EXCEPT !.pc = "close",
                                                 !.stream_sid = stream_sid,
                                                 !.session = s]
                     /\ UNCHANGED << active_sessions, key_order, codec, server >>
                ELSE /\ session' = [session EXCEPT ![s] =
                                       [cleanup(@) EXCEPT !.end_calls = @ + 1]]
                     /\ active_sessions' = end_session(active_sessions, stream_sid)
                     /\ key_order' = keys_after_del(key_order, stream_sid)
                     /\ endall' = [endall EXCEPT !.keys = Tail(@)]
    /\ UNCHANGED << active_streams, nsessions, pc, loc, twilio_out, nmedia, nframes,
                    early, relay, codec, server >>

\* end_session inside cleanup_all_sessions from the return of websocket.close():
\* the KeyError of del leaves cleanup_all_sessions ("raised")
EndAllFinish ==
    /\ endall.pc = "close"
    /\ session' = [session EXCEPT ![endall.session] = cleanup(@)]
    /\ IF end_session_raises(active_sessions, endall.stream_sid)
       THEN /\ endall' = [endall EXCEPT !.pc = "raised",
                                        !.stream_sid = 0, !.session = NoSession]
            /\ UNCHANGED << active_sessions, key_order, codec, server >>
       ELSE /\ active_sessions' = end_session(active_sessions, endall.stream_sid)
            /\ key_order' = keys_after_del(key_order, endall.stream_sid)
            /\ endall' = [endall EXCEPT !.pc = "iter", !.keys = Tail(@),
                                        !.stream_sid = 0, !.session = NoSession]
    /\ UNCHANGED << active_streams, nsessions, pc, loc, twilio_out, nmedia, nframes,
                    early, relay, codec, server >>

\* One telephony connection, and a shutdown that ends all sessions
NextShutdown ==
    \/ Serve({1}, MaxMedia)
    \/ EndAllBegin
    \/ EndAllNext
    \/ EndAllFinish
SpecShutdown == Init /\ [][NextShutdown]_vars

\* ------------------------------------------------------- main.py: the relay
\* The parsed content of the frames a relay meets: the key that names the
\* message, and what serverContent.modelTurn.parts holds ("absent": no
\* modelTurn; "empty": parts is []; "audio": parts[0] has inlineData;
\* "text": parts[0] has none).
RelayValues ==
    { [top |-> "setup", parts |-> "absent"],
      [top |-> "realtimeInput", parts |-> "absent"],
      [top |-> "serverContent", parts |-> "absent"],
      [top |-> "serverContent", parts |-> "audio"],
      [top |-> "serverContent", parts |-> "text"],
      [top |-> "serverContent", parts |-> "empty"] }

NoValue == [top |-> "none", parts |-> "absent"]

\* A frame on the wire is a text: content written compactly ("compact", what
\* json.dumps produces), the same content with other spacing ("spaced"), or a
\* text that is not JSON ("garbage").
RelayTexts ==
    { [form |-> "garbage", value |-> NoValue] }
        \cup { [form |-> f, value |-> v] : f \in {"compact", "spaced"}, v \in RelayValues }

json_loads_raises(text) == text.form = "garbage"
json_loads(text) == text.value
json_dumps(data) == [form |-> "compact", value |-> data]

\* the logging of proxy_task with DEBUG on: parts[0] of an empty list raises
\* IndexError
inspect_raises(data) ==
    /\ data.top # "realtimeInput"
    /\ data.top # "setup"
    /\ data.top = "serverContent"
    /\ data.parts = "empty"

\* the body of the loop of proxy_task on one message, as the frames sent to
\* the destination so far; the except branch prints and sends nothing
proxy_task(written, message, destination_state) ==
    IF json_loads_raises(message) THEN written
    ELSE LET data == json_loads(message)
         IN  IF inspect_raises(data) THEN written
             ELSE IF destination_state # "OPEN" THEN written     \* send raises ConnectionClosed
             ELSE Append(written, json_dumps(data))

\* the task of direction d reads one frame from its source
RelayForward(d, message) ==
    /\ relay.task[d] = "running"
    /\ relay.side[Source(d)] = "OPEN"
    /\ Len(relay.read["c2s"]) + Len(relay.read["s2c"]) < MaxRelay
    /\ relay' = [relay EXCEPT
           !.read[d] = Append(@, message),
           !.written[d] = proxy_task(@, message, relay.side[Destination(d)])]
    /\ UNCHANGED << active_sessions, active_streams, session, nsessions, pc, loc,
                    twilio_out, nmedia, nframes, early, key_order, endall, codec, server >>

\* the peer of one side closes its connection, with close code OK or not
RelayPeerClose(x, ok) ==
    /\ relay.side[x] = "OPEN"
    /\ relay' = [relay EXCEPT !.side[x] = "CLOSED", !.clean[x] = ok]
    /\ UNCHANGED << active_sessions, active_streams, session, nsessions, pc, loc,
                    twilio_out, nmedia, nframes, early, key_order, endall, codec, server >>

\* websocket.close() on side x with close code 1000: nothing on a closed
\* connection; otherwise the connection ends closed, the peer having answered
\* the closing handshake (ok) or not
close_side(r, x, ok) ==
    IF r.side[x] = "CLOSED" THEN r
    ELSE [r EXCEPT !.side[x] = "CLOSED", !.clean[x] = ok]

\* proxy_task without its last line
RelaySourceEnd_noclose(d) ==
    /\ relay.task[d] = "running"
    /\ relay.side[Source(d)] = "CLOSED"
    /\ IF relay.clean[Source(d)]
       THEN relay' = [relay EXCEPT !.task[d] = "done"]
       ELSE relay' = [relay EXCEPT !.task[d] = "failed"]
    /\ UNCHANGED << active_sessions, active_streams, session, nsessions, pc, loc,
                    twilio_out, nmedia, nframes, early, key_order, endall, codec, server >>

\* the task of direction d meets its closed source: the loop ends and the
\* destination is closed, or ConnectionClosed leaves proxy_task
RelaySourceEnd(d) ==
    /\ relay.task[d] = "running"
    /\ relay.side[Source(d)] = "CLOSED"
    /\ IF relay.clean[Source(d)]
       THEN \E ok \in BOOLEAN :
               relay' = [close_side(relay, Destination(d), ok) EXCEPT !.task[d] = "done"]
       ELSE relay' = [relay EXCEPT !.task[d] = "failed"]
    /\ UNCHANGED << active_sessions, active_streams, session, nsessions, pc, loc,
                    twilio_out, nmedia, nframes, early, key_order, endall, codec, server >>

\* asyncio.gather in create_proxy completes: it returns when both tasks are
\* done and raises as soon as one task has raised, without cancelling the
\* other; leaving the async with block closes the server connection
RelayJoin ==
    /\ relay.gather = "waiting"
    /\ \/ \E d \in Directions : relay.task[d] = "failed"
       \/ \A d \in Directions : relay.task[d] = "done"
    /\ \E ok \in BOOLEAN :
          relay' = [close_side(relay, "server", ok) EXCEPT
                       !.gather = IF \E d \in Directions : relay.task[d] = "failed"
                                  THEN "raised" ELSE "returned"]
    /\ UNCHANGED << active_sessions, active_streams, session, nsessions, pc, loc,
                    twilio_out, nmedia, nframes, early, key_order, endall, codec, server >>

\* create_proxy and handle_client are left, by return or by the exception of
\* gather; the serving library then closes the client connection, with an
\* error close code after an exception
RelayHandlerReturn ==
    /\ relay.gather # "waiting"
    /\ relay.handler = "running"
    /\ \E ok \in BOOLEAN :
          relay' = [close_side(relay, "client", ok /\ relay.gather = "returned")
                       EXCEPT !.handler = "over"]
    /\ UNCHANGED << active_sessions, active_streams, session, nsessions, pc, loc,
                    twilio_out, nmedia, nframes, early, key_order, endall, codec, server >>

NextRelay ==
    \/ \E d \in Directions, m \in RelayTexts : RelayForward(d, m)
    \/ \E x \in {"client", "server"}, ok \in BOOLEAN : RelayPeerClose(x, ok)
    \/ \E d \in Directions : RelaySourceEnd(d)
    \/ RelayJoin
    \/ RelayHandlerReturn
SpecRelay == Init /\ [][NextRelay]_vars

\* the event loop runs every task that is ready: a direction task whose source
\* is closed, and create_proxy once gather can complete; the peers owe nothing
SpecRelayFair ==
    /\ SpecRelay
    /\ \A d \in Directions : WF_vars(RelaySourceEnd(d))
    /\ WF_vars(RelayJoin)
    /\ WF_vars(RelayHandlerReturn)

\* --------------------------------------------- audio_converter.py: calls
\* Bounds of the arguments the conversions are called with.
MaxBytes == 3     \* longest bytes object drawn

\* the frame of the flow test: 160 bytes, 20 ms of telephony audio
TestFrameBytes == 160
TestFrame == [i \in 1..TestFrameBytes |-> 85]

\* 16-bit samples: both ends of the range, zero and its neighbours, and values
\* on both sides of the compression divisor and of the exponent steps
Samples == { -32768, -8192, -4096, -256, -1, 0, 1, 255, 4096, 8192, 32767 }

\* byte values: 0x00, the bias 0x55, the bias with the sign bit, 0xFF
ByteValues == { 0, 85, 213, 255 }
ByteStrings == UNION { [1..n -> ByteValues] : n \in 0..MaxBytes }

\* the rates the bridge uses
Rates == { 8000, 16000, 24000 }

\* the calls made: a pair of samples to take through encode and decode, a bytes
\* object with two rates, and a base64 string for a bridge, either the
\* encoding of some bytes or that encoding with one stray character appended
CodecInputs ==
    { [CodecIdle EXCEPT !.kind = "samples", !.raw = << x, y >>,
                        !.data = PackInt16(<< x, y >>)] : x, y \in Samples }
    \cup { [CodecIdle EXCEPT !.kind = "bytes", !.raw = b, !.data = b,
                             !.from_rate = f, !.to_rate = r] :
              b \in ByteStrings, f \in Rates, r \in Rates }
    \cup { [CodecIdle EXCEPT !.kind = "text", !.raw = b, !.data = B64Encode(b)] :
              b \in ByteStrings \cup { TestFrame } }
    \cup { [CodecIdle EXCEPT !.kind = "text", !.raw = b, !.data = B64Encode(b) \o << 0 >>] :
              b \in ByteStrings }

InitCodec ==
    /\ InitState
    /\ relay = RelayStarted
    /\ server = ServerProxying
    /\ codec \in CodecInputs

\* pcm16_to_mulaw, then mulaw_to_pcm16 on its result
CodecRoundTrip ==
    /\ codec.kind = "samples"
    /\ codec.op = "none"
    /\ LET mulaw == pcm16_to_mulaw(codec.data)
       IN  codec' = [codec EXCEPT !.op = "roundtrip", !.mid = mulaw,
                                  !.out = mulaw_to_pcm16(mulaw)]
    /\ UNCHANGED << active_sessions, active_streams, session, nsessions, pc, loc,
                    twilio_out, nmedia, nframes, early, key_order, endall, relay, server >>

CodecDecode ==
    /\ codec.kind = "bytes"
    /\ codec.op = "none"
    /\ codec' = [codec EXCEPT !.op = "decode", !.out = mulaw_to_pcm16(codec.data)]
    /\ UNCHANGED << active_sessions, active_streams, session, nsessions, pc, loc,
                    twilio_out, nmedia, nframes, early, key_order, endall, relay, server >>

CodecEncode ==
    /\ codec.kind = "bytes"
    /\ codec.op = "none"
    /\ codec' = [codec EXCEPT !.op = "encode", !.out = pcm16_to_mulaw(codec.data)]
    /\ UNCHANGED << active_sessions, active_streams, session, nsessions, pc, loc,
                    twilio_out, nmedia, nframes, early, key_order, endall, relay, server >>

CodecResample ==
    /\ codec.kind = "bytes"
    /\ codec.op = "none"
    /\ codec' = [codec EXCEPT !.op = "resample",
                     !.out = resample_audio(codec.data, codec.from_rate, codec.to_rate)]
    /\ UNCHANGED << active_sessions, active_streams, session, nsessions, pc, loc,
                    twilio_out, nmedia, nframes, early, key_order, endall, relay, server >>

CodecInbound ==
    /\ codec.kind = "text"
    /\ codec.op = "none"
    /\ codec' = [codec EXCEPT !.op = "inbound", !.out = twilio_to_gemini_format(codec.data)]
    /\ UNCHANGED << active_sessions, active_streams, session, nsessions, pc, loc,
                    twilio_out, nmedia, nframes, early, key_order, endall, relay, server >>

CodecOutbound ==
    /\ codec.kind = "text"
    /\ codec.op = "none"
    /\ codec' = [codec EXCEPT !.op = "outbound", !.out = gemini_to_twilio_format(codec.data)]
    /\ UNCHANGED << active_sessions, active_streams, session, nsessions, pc, loc,
                    twilio_out, nmedia, nframes, early, key_order, endall, relay, server >>

NextCodec ==
    \/ CodecRoundTrip
    \/ CodecDecode
    \/ CodecEncode
    \/ CodecResample
    \/ CodecInbound
    \/ CodecOutbound
SpecCodec == InitCodec /\ [][NextCodec]_vars

\* ------------------------------------------------------------- properties
\* the backend connection of s has been opened and is not closed yet
Live(s) == session[s].vc_websocket \in {"OPEN", "CLOSING"}

\* the audio-input frames written on the backend connection of s
AudioFrames(s) == SelectSeq(session[s].sent, LAMBDA f : f.msg.type = "realtime_input")
SetupFrames(s) == SelectSeq(session[s].sent, LAMBDA f : f.msg = SetupMessage)

\* the scripted call has delivered start, media and stop, and stop was handled
ScenarioOver ==
    nsessions = 1 /\ nmedia = 1 /\ session[1].end_calls >= 1 /\ pc[1] = "recv"

\* C1: once one connection has delivered start, media, stop for a stream id,
\* there was exactly one create and one end for it, the registry holds no
\* Session for it and the local mapping no longer contains it.
C1_StartMediaStop ==
    ScenarioOver =>
        /\ Cardinality({s \in SessionIds :
                Created(s) /\ session[s].stream_sid = ScenarioStream}) = 1
        /\ session[1].end_calls = 1
        /\ get_session(active_sessions, ScenarioStream) = NoSession
        /\ active_streams[ScenarioStream] = NoSession
        /\ \A k \in StreamSids : active_sessions[k] = NoSession

\* the scripted call is over, its audio was forwarded and its backend is closed
C1_Witness ==
    /\ ScenarioOver
    /\ Len(AudioFrames(1)) = 1
    /\ session[1].vc_websocket = "CLOSED"

\* C2: after create has returned for a Session whose connect attempt failed,
\* the Session's connected flag is false and the error listener has been
\* invoked exactly once.
C2_ConnectFailure ==
    \A s \in SessionIds :
        (Returned(s) /\ session[s].vc_websocket = "None") =>
            (~session[s].connected /\ session[s].on_error_calls = 1)

\* C3: each stream id has at most one live Session (backend connection
\* opened and not yet closed).
C3_OneLiveSessionPerStream ==
    \A k \in StreamSids :
        Cardinality({s \in SessionIds :
            Created(s) /\ session[s].stream_sid = k /\ Live(s)}) <= 1

\* C4: for every inline-audio part with a non-empty outbound bridge result the
\* audio listener is invoked and the media frame {media, streamSid, payload}
\* is written to the telephony transport of the Session.
C4_AudioReachesTelephony ==
    \A s \in SessionIds :
        \A i \in 1..Len(session[s].audio_calls) :
            \E j \in 1..Len(twilio_out[session[s].twilio_websocket]) :
                twilio_out[session[s].twilio_websocket][j]
                    = send_audio_to_twilio(session[s], session[s].audio_calls[i])

\* C5: the audio-input frames on a backend connection are the converted
\* payloads of media events, in strictly increasing arrival order; no media
\* event is written twice, on one connection or on two.
C5_ArrivalOrder ==
    /\ \A s \in SessionIds :
         LET a == AudioFrames(s)
         IN  /\ \A i \in 1..Len(a) :
                   /\ a[i].ev \in 1..nmedia
                   /\ a[i].msg = create_gemini_audio_message(twilio_to_gemini_format(a[i].src))
             /\ \A i, j \in 1..Len(a) : i < j => a[i].ev < a[j].ev
    /\ \A s, t \in SessionIds :
         s # t => \A i \in 1..Len(AudioFrames(s)), j \in 1..Len(AudioFrames(t)) :
                     AudioFrames(s)[i].ev # AudioFrames(t)[j].ev

\* two media events with different payloads were forwarded on one connection
C5_Witness ==
    \E s \in SessionIds :
        /\ Len(AudioFrames(s)) = 2
        /\ AudioFrames(s)[1].src # AudioFrames(s)[2].src

\* C6 as stated: on every backend connection exactly one setup frame is
\* written, and it is the first frame.
C6_ExactlyOneSetup ==
    \A s \in SessionIds :
        (Returned(s) /\ session[s].vc_websocket # "None") =>
            (Len(SetupFrames(s)) = 1 /\ session[s].sent[1].msg = SetupMessage)

\* C6 amended: a backend connection carries at most one setup frame, always
\* as its first frame, so no audio-input frame is written where the setup
\* frame was not sent; it carries no frame at all only when the send of the
\* setup frame failed, which the error listener was told.
C6_SetupFirst ==
    \A s \in SessionIds :
        /\ session[s].sent # << >> =>
              (session[s].sent[1].msg = SetupMessage /\ Len(SetupFrames(s)) = 1)
        /\ (Returned(s) /\ session[s].vc_websocket # "None" /\ session[s].sent = << >>) =>
              session[s].on_error_calls >= 1

\* a setup frame followed by an audio-input frame
C6_Witness ==
    \E s \in SessionIds :
        /\ Len(session[s].sent) = 2
        /\ session[s].sent[1].msg = SetupMessage
        /\ session[s].sent[2].msg.type = "realtime_input"

C8_UnknownStreamMediaDropped ==
    [][\A c \in Conns, k \in StreamSids, p \in MediaPayloads :
          (active_sessions[k] = NoSession /\ nmedia' # nmedia /\ HandleMediaData(c, k, p)) =>
              (/\ UNCHANGED << active_sessions, active_streams, session, twilio_out, codec, server >>
               /\ pc'[c] = "recv")]_vars

\* the last media event was for a stream id that is not in the registry (its
\* Session is still connecting) while another Session is connected
C8_Witness ==
    \E s, t \in SessionIds :
        /\ InCreation(s) /\ nmedia >= 1 /\ early[s] = nmedia
        /\ active_sessions[session[s].stream_sid] = NoSession
        /\ Returned(t) /\ session[t].connected /\ Live(t)
        /\ active_sessions[session[t].stream_sid] = t
        /\ Len(session[t].sent) = 1

\* C9: when create returns, get(id) is the Session it returns; when a later
\* end(id) returns, get(id) is none.
C9_CreateGetEnd ==
    [][\A c \in Conns :
          /\ (pc[c] = "connect" /\ pc'[c] # "connect") =>
                get_session(active_sessions', loc[c].stream_sid) = loc[c].session
          /\ (pc[c] = "close" /\ pc'[c] # "close") =>
                get_session(active_sessions', loc[c].stream_sid) = NoSession
          /\ \A k \in StreamSids :
                (pc[c] = "recv" /\ pc'[c] = "recv" /\ StopBegin(c, k)) =>
                    get_session(active_sessions', k) = NoSession]_vars

\* a Session that create returned and end has ended
C9_Witness ==
    \E s \in SessionIds :
        /\ Returned(s) /\ session[s].end_calls = 1
        /\ session[s].vc_websocket = "CLOSED"
        /\ get_session(active_sessions, session[s].stream_sid) = NoSession
        /\ \A c \in Conns : pc[c] = "recv"

\* C10: end for a stream id that is not in the registry raises nothing,
\* closes no connection and leaves the registry and every Session unchanged.
C10_EndUnknownIsNoOp ==
    [][\A c \in Conns, k \in StreamSids :
          (active_sessions[k] = NoSession /\ pc[c] = "recv" /\ StopBegin(c, k)) =>
              (/\ UNCHANGED << active_sessions, session, codec, server >>
               /\ pc'[c] = "recv")]_vars

\* a stream id whose Session was ended is not in the registry, another stream
\* id has a connected Session, and a connection is ready to deliver a stop
C10_Witness ==
    \E s, t \in SessionIds, c \in Conns :
        /\ Returned(s) /\ session[s].end_calls = 1
        /\ active_sessions[session[s].stream_sid] = NoSession
        /\ Returned(t) /\ session[t].connected /\ Live(t)
        /\ active_sessions[session[t].stream_sid] = t
        /\ pc[c] = "recv"
        /\ ENABLED StopBegin(c, session[s].stream_sid)

\* C11: when two tasks run end for the same stream id concurrently, every
\* interleaving completes without an exception, with the Session closed and
\* the entry removed: no end that resumes from the close handshake meets a
\* KeyError at its del.
C11_ConcurrentEndCompletes ==
    [][\A c \in Conns :
          (pc[c] = "close" /\ pc'[c] = "recv") =>
              /\ ~end_session_raises(active_sessions, loc[c].stream_sid)
              /\ session'[loc[c].session].vc_websocket = "CLOSED"
              /\ ~session'[loc[c].session].connected
              /\ active_sessions'[loc[c].stream_sid] = NoSession]_vars

\* the backend connection of the Session is not open and both connected flags
\* are false
Closed(sr) ==
    /\ sr.vc_websocket \notin {"OPEN", "CLOSING"}
    /\ ~sr.connected
    /\ ~sr.vc_connected

\* C12: when a stop is processed for a stream id that has a Session, then at
\* the return of end the backend connection of that Session is not open, its
\* connected flag is false and the registry has no entry for the stream id.
C12_StopClosesBackend ==
    [][\A c \in Conns :
          /\ (pc[c] = "close" /\ pc'[c] = "recv") =>
                /\ Closed(session'[loc[c].session])
                /\ active_sessions'[loc[c].stream_sid] = NoSession
          /\ \A k \in StreamSids :
                (/\ active_sessions[k] # NoSession
                 /\ pc[c] = "recv" /\ pc'[c] = "recv"
                 /\ StopBegin(c, k)) =>
                    /\ Closed(session'[active_sessions[k]])
                    /\ active_sessions'[k] = NoSession]_vars

\* a stop was processed for a Session whose backend connection was open: the
\* connection is closed, the flags are false and the entry is gone
C12_Witness ==
    \E s \in SessionIds :
        /\ Returned(s) /\ session[s].end_calls = 1
        /\ \A c \in Conns : pc[c] # "close"
        /\ session[s].sent # << >>
        /\ session[s].vc_websocket = "CLOSED"
        /\ ~session[s].connected /\ ~session[s].vc_connected
        /\ active_sessions[session[s].stream_sid] = NoSession

\* C13: CLOSED and ERROR are terminal.  The error listener sets the connected
\* flag to false, so a flag that never becomes true again is false in every
\* state in which the listener has fired or the connect attempt has failed.
C13_TerminalStates ==
    \A s \in SessionIds :
        (Returned(s) /\ (session[s].on_error_calls >= 1 \/ session[s].vc_websocket = "None")) =>
            ~session[s].connected

\* C14: when the peer closes the backend connection of a connected Session,
\* the Session's connected flag becomes false: once the listener task has
\* seen the close of a connection that had been opened and set up, and no end
\* was called, the flag is false (so that the ingress drops later media).
C14_PeerCloseDisconnects ==
    \A s \in SessionIds :
        (/\ Returned(s)
         /\ session[s].sent # << >>
         /\ session[s].end_calls = 0
         /\ session[s].vc_websocket = "CLOSED"
         /\ session[s].listener = "done") =>
            ~session[s].connected

\* C15: a backend frame whose handling raises, a frame that cannot be parsed
\* included, is dropped and the listener loop continues: as long as the
\* backend connection is open its listener task is running, so every later
\* frame is still dispatched.
C15_ListenerSurvivesBadFrame ==
    \A s \in SessionIds :
        Live(s) => session[s].listener = "running"

\* C16: a malformed telephony event is logged and skipped: it changes no
\* state and every later event on the same connection is still processed, so
\* the receive loop of a connection is never left because of an event.
C16_MalformedEventSkipped ==
    \A c \in Conns : pc[c] # "failed"

\* C17: when a telephony connection closes without a stop event, event
\* processing for that connection ends and nothing is cleaned up: the close
\* changes neither the registry, the local mapping nor any Session; an entry
\* leaves the registry only in an end, and only an end starts closing a
\* backend connection from this side.
C17_TransportCloseKeepsSession ==
    [][/\ \A c \in Conns :
             /\ (pc[c] = "recv" /\ pc'[c] = "closed") =>
                   UNCHANGED << active_sessions, key_order, active_streams, session, codec, server >>
             /\ pc[c] = "closed" => pc'[c] = "closed"
       /\ \A k \in StreamSids :
             (active_sessions[k] # NoSession /\ active_sessions'[k] = NoSession) =>
                 \E c \in Conns : pc[c] = "close" \/ (pc[c] = "recv" /\ StopBegin(c, k))
       /\ \A s \in SessionIds :
             (session[s].vc_websocket = "OPEN" /\ session'[s].vc_websocket = "CLOSING") =>
                 \E c \in Conns : pc[c] = "recv" /\ pc'[c] = "close"]_vars

\* a telephony connection has closed and the Session of its started stream is
\* still in the registry, connected, with its backend connection open
C17_Witness ==
    \E c \in Conns, s \in SessionIds :
        /\ pc[c] = "closed"
        /\ Returned(s) /\ session[s].twilio_websocket = c
        /\ session[s].end_calls = 0
        /\ active_sessions[session[s].stream_sid] = s
        /\ active_streams[session[s].stream_sid] = s
        /\ session[s].vc_websocket = "OPEN" /\ session[s].connected

\* cleanup_all_sessions is over, and no create_session call overlapped it
EndAllOver ==
    /\ endall.pc \in {"done", "raised"}
    /\ ~endall.overlap
    /\ nsessions = endall.base

\* C18: endAll ends every Session known when it is called: once it is over,
\* with no concurrent create, the registry is empty and every Session that
\* was in it has had cleanup run (backend connection closed, connected false).
C18_EndAllEndsEverySession ==
    EndAllOver =>
        /\ \A k \in StreamSids : active_sessions[k] = NoSession
        /\ \A s \in endall.known : Closed(session[s])

\* some end_session call that found session s has returned (or raised at its del)
EndReturned(s) ==
    session[s].end_calls >
        Cardinality({c \in Conns : pc[c] = "close" /\ loc[c].session = s})
            + (IF endall.pc = "close" /\ endall.session = s THEN 1 ELSE 0)

\* C19: after end has returned for a Session, none of its audio, text or
\* error listeners is invoked again and no telephony media frame is emitted
\* for it, whatever the backend still delivers.
C19_NoListenerAfterEnd ==
    [][\A s \in SessionIds :
          EndReturned(s) =>
              /\ session'[s].audio_calls = session[s].audio_calls
              /\ session'[s].text_calls = session[s].text_calls
              /\ session'[s].on_error_calls = session[s].on_error_calls
              /\ twilio_out'[session[s].twilio_websocket]
                     = twilio_out[session[s].twilio_websocket]]_vars

\* end has returned for a Session whose backend connection was open; its
\* listener task has not finished and the backend has a frame left to deliver
C19_Witness ==
    \E s \in SessionIds :
        /\ EndReturned(s)
        /\ session[s].sent # << >>
        /\ session[s].vc_websocket = "CLOSED"
        /\ session[s].listener = "running"
        /\ nframes < CallFrames

\* the frames of a sequence of wire texts that json.loads accepts
WellFormed(texts) == SelectSeq(texts, LAMBDA m : ~json_loads_raises(m))

\* C20: in each direction every well-formed frame read from the source is
\* written to the destination exactly once, with its parsed content
\* unchanged, in the order read.
C20_RelayForwardsEveryFrame ==
    \A d \in Directions :
        LET frames == WellFormed(relay.read[d])
        IN  /\ Len(relay.written[d]) = Len(frames)
            /\ \A i \in 1..Len(frames) :
                  /\ ~json_loads_raises(relay.written[d][i])
                  /\ json_loads(relay.written[d][i]) = json_loads(frames[i])

\* the relay is over: handle_client has been left, both connections are
\* closed and neither direction task is running
RelayOver ==
    /\ relay.handler = "over"
    /\ relay.gather # "waiting"
    /\ \A x \in {"client", "server"} : relay.side[x] = "CLOSED"
    /\ \A d \in Directions : relay.task[d] # "running"

\* C21: once either connection of a relay is closed (its source is exhausted),
\* the other connection gets closed, the opposite direction finishes too, and
\* the join of the two direction tasks eventually completes with both
\* connections closed.
C21_RelayCompletes ==
    (\E x \in {"client", "server"} : relay.side[x] = "CLOSED") ~> RelayOver

\* a relay that is over after one peer closed its connection cleanly and the
\* direction reading it closed the other connection
C21_Witness ==
    /\ RelayOver
    /\ relay.gather = "returned"
    /\ \E d \in Directions : Len(relay.written[d]) > 0

\* C22: a frame of the relay that does not parse is skipped and is not fatal:
\* it is not written to the destination and its direction keeps running, and
\* every well-formed frame read later from the same source, while the
\* destination is open, is still written to the destination.
C22_MalformedFrameSkipped ==
    [][\A d \in Directions :
          relay'.read[d] # relay.read[d] =>
              LET m == relay'.read[d][Len(relay'.read[d])]
                  skipped == \E i \in 1..Len(relay.read[d]) : json_loads_raises(relay.read[d][i])
              IN  /\ json_loads_raises(m) =>
                        /\ relay'.written[d] = relay.written[d]
                        /\ relay'.task[d] = "running"
                  /\ (~json_loads_raises(m) /\ skipped /\ relay.side[Destination(d)] = "OPEN") =>
                        relay'.written[d] = Append(relay.written[d], json_dumps(json_loads(m)))]_vars

\* the samples of a PCM16 buffer are all zero / the bytes of a buffer are all 0x55
AllZero(pcm_data) == \A i \in 1..Len(pcm_data) : pcm_data[i] = 0
AllBias(mulaw_data) == \A i \in 1..Len(mulaw_data) : mulaw_data[i] = 85

\* C23: silence maps to silence in both directions of the codec: encode of a
\* linear sample 0 is the companded byte 0x55, and decode of the companded
\* byte 0x55 is the linear sample 0.
C23_SilenceToSilence ==
    /\ (codec.op = "encode" /\ Len(codec.data) % 2 = 0 /\ AllZero(codec.data)) =>
           /\ Len(codec.out) = Len(codec.data) \div 2
           /\ AllBias(codec.out)
    /\ (codec.op = "decode" /\ AllBias(codec.data)) =>
           /\ Len(codec.out) = 2 * Len(codec.data)
           /\ AllZero(codec.out)
    /\ (codec.op = "roundtrip" /\ codec.raw = << 0, 0 >>) =>
           /\ codec.mid = << 85, 85 >>
           /\ UnpackInt16(codec.out) = << 0, 0 >>

\* two zero samples taken through encode and back through decode
C23_Witness ==
    /\ codec.op = "roundtrip"
    /\ codec.raw = << 0, 0 >>
    /\ codec.mid = << 85, 85 >>
    /\ codec.out = PackInt16(<< 0, 0 >>)

\* the 7-bit magnitude a companded byte carries under the bias and the sign bit
EncodedMagnitude(b) == BitXor(b, 85, 8) % 128

\* C24: for all 16-bit samples x and y, decode(encode(x)) has the sign of x (a
\* negative x never decodes to a positive sample, a positive x never to a
\* negative one), and magnitude ordering is preserved: if x is encoded with a
\* larger 7-bit magnitude than y, then |decode(encode(x))| >= |decode(encode(y))|.
C24_SignAndOrderPreserved ==
    codec.op = "roundtrip" =>
        LET x == codec.raw[1]
            y == codec.raw[2]
            d == UnpackInt16(codec.out)
        IN  /\ x < 0 => d[1] <= 0
            /\ x > 0 => d[1] >= 0
            /\ EncodedMagnitude(codec.mid[1]) > EncodedMagnitude(codec.mid[2]) =>
                   Abs(d[1]) >= Abs(d[2])

\* C25: empty input to every conversion stage gives empty output: decode and
\* encode of the empty bytes object are empty, resample of it is empty for
\* every pair of rates, and both bridges map the empty string to the empty
\* string.
C25_EmptyInEmptyOut ==
    (codec.op \in {"decode", "encode", "resample", "inbound", "outbound"} /\ codec.data = << >>) =>
        codec.out = << >>

\* the resampler called with no audio and two different rates
C25_Witness ==
    /\ codec.op = "resample"
    /\ codec.data = << >>
    /\ codec.from_rate = 24000
    /\ codec.to_rate = 8000
    /\ codec.out = << >>

\* C26: the inbound bridge doubles the sample count: the base64 encoding of N
\* companded bytes comes back as a base64 string that decodes to exactly 2N
\* PCM16 samples (160 bytes give 320 samples), and when every input byte is
\* 0x55 every output sample is zero, hence near zero amplitude.
C26_InboundDoubles ==
    (codec.op = "inbound" /\ codec.data = B64Encode(codec.raw)) =>
        /\ ~B64DecodeRaises(codec.out)
        /\ Len(B64Decode(codec.out)) = 2 * (2 * Len(codec.raw))
        /\ AllBias(codec.raw) => AllZero(B64Decode(codec.out))

\* the frame of the flow test through the inbound bridge
C26_Witness ==
    /\ codec.op = "inbound"
    /\ codec.raw = TestFrame
    /\ codec.data = B64Encode(TestFrame)
    /\ Len(UnpackInt16(B64Decode(codec.out))) = 2 * TestFrameBytes

\* a stage of the bridge fails on this call: the string is not base64, or
\* (outbound) the decoded PCM has a byte length that is not a multiple of the
\* sample width, on which np.frombuffer raises in the resampler and the codec
StageFails(op, data) ==
    \/ B64DecodeRaises(data)
    \/ /\ op = "outbound"
       /\ Len(B64Decode(data)) % 2 # 0

\* C27: in both bridge directions, when a stage fails (invalid base64, a PCM
\* payload whose byte length is not a multiple of the sample width) the bridge
\* returns the empty string, never a non-empty payload.
C27_FailureYieldsEmpty ==
    (codec.op \in {"inbound", "outbound"} /\ StageFails(codec.op, codec.data)) =>
        codec.out = << >>

\* the Session is CONNECTED: start_gemini_connection has set its flag and its
\* backend connection is set up and open
Connected(sr) ==
    /\ sr.connected
    /\ sr.vc_connected
    /\ sr.vc_websocket = "OPEN"

\* C28: a media event is forwarded only if the registry holds a Session for
\* its stream id and that Session is CONNECTED; then, if the inbound bridge
\* result is not empty, exactly one audio-input frame, made from that result,
\* is written to the backend connection of that Session and of no other, in
\* the step that handles the event, after which the handler takes the next
\* event.  If the bridge result is empty, or the Session is absent or not
\* connected, no backend frame is written, in that step or later: an
\* audio-input frame is only ever written by the step that handles its event.
C28_MediaForwarding ==
    [][/\ \A c \in Conns, k \in StreamSids, p \in MediaPayloads :
            (nmedia' # nmedia /\ HandleMediaData(c, k, p)) =>
                LET s == active_sessions[k]
                    base64_pcm == twilio_to_gemini_format(p)
                    forward == /\ s # NoSession
                               /\ Connected(session[s])
                               /\ base64_pcm # << >>
                IN  /\ pc'[c] = "recv"
                    /\ \A t \in SessionIds :
                          session'[t].sent =
                              IF forward /\ t = s
                              THEN Append(session[t].sent,
                                          [msg |-> create_gemini_audio_message(base64_pcm),
                                           ev |-> nmedia', src |-> p])
                              ELSE session[t].sent
       /\ \A t \in SessionIds :
            LET n == Len(session'[t].sent)
            IN  (session'[t].sent # session[t].sent /\ n > 0
                    /\ session'[t].sent[n].msg.type = "realtime_input") =>
                (nmedia' = nmedia + 1 /\ session'[t].sent[n].ev = nmedia')]_vars

\* a connected Session whose connection carries the audio-input frame of the
\* first media event, after a second media event that was not forwarded
C28_Witness ==
    \E s \in SessionIds :
        /\ Connected(session[s])
        /\ active_sessions[session[s].stream_sid] = s
        /\ nmedia = 2
        /\ Len(AudioFrames(s)) = 1
        /\ AudioFrames(s)[1].ev = 1

\* a transcription field that is present with a non-empty text
HasText(transcription) == transcription \notin { NoField, "" }

\* C29: every backend frame the listener has read that carries a
\* transcription field with non-empty text, inputTranscription as well as
\* outputTranscription, has caused a text-listener invocation with that text
\* (frames with setupComplete, which are logged only, aside).
C29_TranscriptionsReachTextListener ==
    \A s \in SessionIds :
        \A i \in 1..Len(session[s].heard) :
            LET frame == session[s].heard[i]
                invoked(text) == \E j \in 1..Len(session[s].text_calls) :
                                     session[s].text_calls[j] = text
            IN  (frame.kind = "json" /\ ~frame.setupComplete) =>
                    /\ HasText(frame.inputTranscription) => invoked(frame.inputTranscription)
                    /\ HasText(frame.outputTranscription) => invoked(frame.outputTranscription)

\* C30: a backend frame with setupComplete true is logged only: handling it
\* invokes none of the audio, text and error listeners, writes nothing to a
\* telephony transport or to a backend connection, and changes no Session and
\* no registry state, whatever else the frame carries.
C30_SetupCompleteLoggedOnly ==
    [][\A s \in SessionIds, f \in BackendFrames :
          (f.kind = "json" /\ f.setupComplete /\ nframes' # nframes /\ BackendFrame(s, f)) =>
              /\ session' = [session EXCEPT ![s].heard = Append(@, f)]
              /\ UNCHANGED << active_sessions, active_streams, twilio_out, pc, loc >>]_vars

\* a connected Session whose listener has read a setupComplete frame that
\* also carries a transcription and inline audio: no listener was invoked
C30_Witness ==
    \E s \in SessionIds :
        /\ Connected(session[s])
        /\ session[s].heard = << Frame(TRUE, NoField, "answer", << AudioPart(PcmA) >>) >>
        /\ session[s].text_calls = << >>
        /\ session[s].audio_calls = << >>
        /\ session[s].on_error_calls = 0

\* C29 amended: a backend frame without setupComplete that carries an
\* outputTranscription with non-empty text causes exactly one text-listener
\* invocation with that text, ahead of the invocations for text parts; an
\* inputTranscription is only logged and causes no listener invocation.
C29_OutputTranscriptionReachesTextListener ==
    [][\A s \in SessionIds, f \in BackendFrames :
          (f.kind = "json" /\ ~f.setupComplete /\ nframes' # nframes /\ BackendFrame(s, f)) =>
              LET before == session[s].text_calls
                  after == session'[s].text_calls
                  expected == IF HasText(f.outputTranscription)
                              THEN << f.outputTranscription >> ELSE << >>
                  n == Len(before) + Len(expected)
              IN  /\ Len(after) >= n
                  /\ SubSeq(after, 1, n) = before \o expected
                  /\ \A j \in (n + 1)..Len(after) : after[j] = TextPart.text]_vars

\* the listener has read a frame with both transcriptions: the text listener
\* was invoked once, with the output transcription
C29_Witness ==
    \E s \in SessionIds :
        /\ session[s].heard = << Frame(FALSE, "question", "answer", << >>) >>
        /\ session[s].text_calls = << "answer" >>

\* data.get("streamSid") of an event that has no streamSid field
NoStreamSid == 0

\* C31: a start event with no streamSid is logged and dropped: no CallSession
\* is ever constructed for it, and neither the registry nor the local stream
\* mapping ever holds an entry under the missing stream id.
C31_StartWithoutStreamSidDropped ==
    /\ active_sessions[NoStreamSid] = NoSession
    /\ active_streams[NoStreamSid] = NoSession
    /\ \A s \in 1..nsessions : session[s].stream_sid # NoStreamSid

\* handle_media_stream has returned for connection c: the telephony
\* connection is over
Ended(c) == pc[c] \in {"closed", "failed"}

\* C32: a backend failure never makes the system close a telephony
\* connection.  No step that touches a Session (a connect that is refused or
\* dropped, a backend close, a send or a frame whose handling fails, an end)
\* ends a telephony connection; a connection ends only when its peer closes
\* it or sends a frame that is not JSON.
C32_BackendFailureKeepsTelephony ==
    [][\A c \in Conns :
          (pc'[c] \in {"closed", "failed"} /\ ~Ended(c)) =>
              /\ session' = session
              /\ TransportClose(c) \/ RecvUnparseable(c)]_vars

\* a Session whose connect was refused, whose error listener ran, and whose
\* telephony connection is still served
C32_Witness ==
    \E s \in SessionIds :
        /\ Returned(s)
        /\ session[s].vc_websocket = "None"
        /\ session[s].on_error_calls = 1
        /\ pc[session[s].twilio_websocket] = "recv"
        /\ nmedia >= 1

\* ----------------------------------------------- main.py: start of the relay
\* get_access_token raises: ValueError with neither a key file nor a token;
\* with a key file, whatever loading or refreshing the credentials raises
get_access_token_raises(credentials, refresh_ok) ==
    \/ credentials = "none"
    \/ credentials = "service_account" /\ ~refresh_ok

InitStartup ==
    /\ InitState
    /\ relay = RelayListening
    /\ server \in { ServerStarting(cr) : cr \in Credentials }
    /\ codec = CodecIdle

\* main() up to its await inside websockets.serve: it prints the
\* configuration and starts the server; the credentials are not looked at
MainServe ==
    /\ server.stage = "starting"
    /\ server' = [server EXCEPT !.stage = "serving"]
    /\ UNCHANGED << active_sessions, active_streams, session, nsessions, pc, loc,
                    twilio_out, nmedia, nframes, early, key_order, endall, relay, codec >>

\* the server accepts a client connection and runs handle_client on it:
\* create_proxy up to websockets.connect.  get_access_token is called here,
\* on the accepted connection; when it raises, create_proxy and handle_client
\* are left by the exception
AcceptClient(refresh_ok) ==
    /\ server.stage = "serving"
    /\ server.accepted = 0
    /\ server' = [server EXCEPT !.accepted = @ + 1]
    /\ relay' = [relay EXCEPT
           !.side["client"] = "OPEN",
           !.handler = "running",
           !.gather = IF get_access_token_raises(server.credentials, refresh_ok)
                      THEN "raised" ELSE "connecting"]
    /\ UNCHANGED << active_sessions, active_streams, session, nsessions, pc, loc,
                    twilio_out, nmedia, nframes, early, key_order, endall, codec >>

\* websockets.connect of create_proxy returns or raises; on return the two
\* tasks are created and create_proxy waits in gather
ProxyConnect(outcome) ==
    /\ relay.gather = "connecting"
    /\ IF outcome = "ok"
       THEN relay' = [relay EXCEPT
                !.side["server"] = "OPEN",
                !.task = [d \in Directions |-> "running"],
                !.gather = "waiting"]
       ELSE relay' = [relay EXCEPT !.gather = "raised"]
    /\ UNCHANGED << active_sessions, active_streams, session, nsessions, pc, loc,
                    twilio_out, nmedia, nframes, early, key_order, endall, codec, server >>

NextStartup ==
    \/ MainServe
    \/ \E refresh_ok \in BOOLEAN : AcceptClient(refresh_ok)
    \/ \E outcome \in {"ok", "refused"} : ProxyConnect(outcome)
    \/ NextRelay
SpecStartup == InitStartup /\ [][NextStartup]_vars

\* C33: when connection credentials are missing the relay process aborts at
\* startup, before it accepts any client connection: a process that has no
\* credentials never accepts a client connection.
C33_NoCredentialsNoAccept ==
    server.credentials = "none" => server.accepted = 0

\* C34: input of the wrong width never raises past the codec: encode of a
\* bytes object of odd length returns floor(len / 2) bytes, every one the
\* silence byte 0x55, whatever the bytes are.
C34_OddLengthEncodesToSilence ==
    (codec.op = "encode" /\ Len(codec.data) % 2 = 1) =>
        codec.out = [i \in 1..(Len(codec.data) \div 2) |-> 85]

\* encode called with three bytes whose first two are a sample that does not
\* encode to 0x55
C34_Witness ==
    /\ codec.op = "encode"
    /\ codec.data = << 0, 255, 213 >>
    /\ pcm16_to_mulaw_sample(BytesToInt16(0, 255)) # 85
    /\ codec.out = << 85 >>

\* the audio-input frames among the frames written to a backend connection
AudioInputFrames(sr) == SelectSeq(sr.sent, LAMBDA f : f.msg # SetupMessage)

\* C35: once the error listener of a Session has been invoked after create
\* returned, the connected flag of the Session is false for the rest of its
\* life: every invocation after the return leaves the flag false, a flag that
\* is false after the return never becomes true again, and while it is false
\* every media event for the stream id is dropped, no frame being written to
\* the backend connection even when that connection is still open.
C35_ErrorDisconnectsForGood ==
    [][\A s \in SessionIds :
          Returned(s) =>
              /\ session'[s].on_error_calls > session[s].on_error_calls =>
                     ~session'[s].connected
              /\ ~session[s].connected =>
                     /\ ~session'[s].connected
                     /\ session'[s].sent = session[s].sent]_vars

\* the listener of a Session met a frame that is not JSON after create
\* returned: the error listener ran, the flag is false, the backend connection
\* is open, and of two media events with audio at most the first was written
C35_Witness ==
    \E s \in SessionIds :
        /\ Returned(s)
        /\ session[s].on_error_calls = 1
        /\ ~session[s].connected
        /\ session[s].vc_websocket = "OPEN" /\ session[s].vc_connected
        /\ session[s].end_calls = 0
        /\ nmedia = CallMedia
        /\ Len(AudioInputFrames(session[s])) < CallMedia
        /\ active_sessions[session[s].stream_sid] = s

\* C36: end removes from the registry only the Session whose backend
\* connection it closed: when end_session comes back from the suspension in
\* cleanup, every other Session stays in the registry, in particular one that
\* a create for the same stream id stored meanwhile and whose backend
\* connection is open.
C36_EndRemovesOnlyItsSession ==
    [][\A c \in Conns :
          (pc[c] = "close" /\ pc'[c] # "close") =>
              \A k \in StreamSids :
                  (active_sessions[k] # NoSession /\ active_sessions[k] # loc[c].session) =>
                      active_sessions'[k] = active_sessions[k]]_vars

\* the keys of a dictionary of the model
Keys(dict) == { k \in StreamSids : dict[k] # NoSession }

\* no handler is suspended inside handle_stream_start or handle_stream_stop
NoHandlerSuspended == \A c \in Conns : pc[c] \notin {"connect", "close"}

\* C37: whenever no handler is suspended inside a start or a stop, the keys of
\* active_streams of the stream handler are the keys of active_sessions of the
\* session manager.
C37_StreamMapMatchesRegistry ==
    NoHandlerSuspended => Keys(active_streams) = Keys(active_sessions)

\* two stops for one stream id overlapped, the second met the missing key, and
\* a later start stored a new Session under the same stream id
C37_Witness ==
    /\ NoHandlerSuspended
    /\ \E s \in SessionIds : session[s].end_calls = 2
    /\ \E k \in StreamSids :
          /\ k # NoStreamSid
          /\ active_sessions[k] # NoSession
          /\ Keys(active_streams) = {k}

\* C38: after end has returned for a Session, no frame, setup or audio input,
\* is written to the backend connection of that Session, whatever media events
\* arrive afterwards on any telephony connection.
C38_NoWriteAfterEnd ==
    [][\A s \in SessionIds :
          EndReturned(s) => session'[s].sent = session[s].sent]_vars

\* end has returned for a Session that had its setup frame written, the other
\* telephony connection is between events, and a media event can still arrive
C38_Witness ==
    \E s \in SessionIds :
        /\ EndReturned(s)
        /\ Len(session[s].sent) = 1
        /\ session[s].vc_websocket = "CLOSED"
        /\ active_sessions[session[s].stream_sid] = NoSession
        /\ \E c \in Conns : c # session[s].twilio_websocket /\ pc[c] = "recv"
        /\ nmedia < MaxMedia

====
